---- MODULE Spec2Model ----
(***************************************************************************)
(* Model of src/script.js: the client-side controller of the mock          *)
(* interview page (setup, question loop, recording, speech + avatar        *)
(* animation, analysis retry loop, results and PDF export).                *)
(*                                                                         *)
(* The page is single threaded: every action below is one task of the      *)
(* browser's event loop (a click handler, a timer callback, an animation   *)
(* frame callback, a network completion callback or a media event) run to  *)
(* completion.  The functions of the script are operators from a state     *)
(* record to a state record, so that a handler that calls other functions  *)
(* is the composition of their operators.                                  *)
(***************************************************************************)
EXTENDS Integers, Sequences, FiniteSets, TLC

(* ---------------- bounds of the model ---------------- *)
MaxQuestions == 3
MaxSetupPending == 1
MaxPdfClicks == 2
MaxLines == 2
MaxResizeListeners == 2

(* ---------------- constants of the program ---------------- *)
MAX_RETRY_ATTEMPTS == 3
PROGRESS_CAP == 95
ProgressFull == 100

(* progress is a real number; it is modelled by the class it falls in:     *)
(* 0, strictly between 0 and PROGRESS_CAP (ProgressMid), PROGRESS_CAP.     *)
ProgressMid == 50

NoFrame == 0
NoRecorder == [state |-> "none", q |-> 0]

(* interviewData before the first response of /start-interview *)
NoResponse == [question_list |-> << >>, questions |-> << >>]

(* a payload is the set of the fields it holds; this one stands for "no    *)
(* response has arrived yet"                                               *)
NoData == {"none"}

VARIABLES
    (* setup *)
    gumPending, startReqPending, stream, allQuestions, interviewData,
    (* session *)
    questions, mimeSupported, currentQuestionIndex, startBtnDisabled,
    nextBtnDisabled, stopBtnDisabled, settleTimers,
    (* recording *)
    mediaRecorder, orphanRecorders, pendingStops, recordedChunks, recording,
    tabFocusInterval, leakedFocusIntervals, cheatingLogs, uploads,
    (* speech *)
    speakCalls, ttsPending, audio, audioUtt, playRejects,
    (* avatar animation *)
    isSpeaking, animationFrame, pendingFrames, loopsCreated,
    expressionCanvas, avatarContainer, avatarLoading, attachedCanvases,
    resizeListeners,
    (* analysis *)
    analyzingData, analysisRetryCount, analysisInFlight, retryTimers,
    analysisSent, analysisInterval, progress, barWidth,
    (* results and pdf *)
    interviewHidden, resultsVisible, resultsContent, downloadingPdf,
    pdfInFlight, pdfClicks, pdfRequests, pdfDownloads, pdfDownloadStatus,
    (* #statusMessages: error messages are never removed *)
    statusErrors,
    (* exceptions that reached the event loop *)
    uncaughtErrors,
    (* the payload of the analysis response *)
    resultData

vars ==
    << gumPending, startReqPending, stream, allQuestions, interviewData,
       questions, mimeSupported, currentQuestionIndex, startBtnDisabled,
       nextBtnDisabled, stopBtnDisabled, settleTimers, mediaRecorder,
       orphanRecorders, pendingStops, recordedChunks, recording,
       tabFocusInterval, leakedFocusIntervals, cheatingLogs, uploads,
       speakCalls, ttsPending, audio, audioUtt, playRejects, isSpeaking,
       animationFrame, pendingFrames, loopsCreated, expressionCanvas,
       avatarContainer, avatarLoading, attachedCanvases, resizeListeners,
       analyzingData, analysisRetryCount, analysisInFlight, retryTimers,
       analysisSent, analysisInterval, progress, barWidth, interviewHidden,
       resultsVisible, resultsContent, downloadingPdf, pdfInFlight,
       pdfClicks, pdfRequests, pdfDownloads, pdfDownloadStatus, statusErrors,
       uncaughtErrors, resultData >>

(* the current state as a record, and the assignment of a record *)
Cur ==
    [ gumPending |-> gumPending, startReqPending |-> startReqPending,
      stream |-> stream, allQuestions |-> allQuestions,
      interviewData |-> interviewData, questions |-> questions,
      mimeSupported |-> mimeSupported,
      currentQuestionIndex |-> currentQuestionIndex,
      startBtnDisabled |-> startBtnDisabled,
      nextBtnDisabled |-> nextBtnDisabled,
      stopBtnDisabled |-> stopBtnDisabled, settleTimers |-> settleTimers,
      mediaRecorder |-> mediaRecorder, orphanRecorders |-> orphanRecorders,
      pendingStops |-> pendingStops, recordedChunks |-> recordedChunks,
      recording |-> recording, tabFocusInterval |-> tabFocusInterval,
      leakedFocusIntervals |-> leakedFocusIntervals,
      cheatingLogs |-> cheatingLogs, uploads |-> uploads,
      speakCalls |-> speakCalls, ttsPending |-> ttsPending, audio |-> audio,
      audioUtt |-> audioUtt, playRejects |-> playRejects,
      isSpeaking |-> isSpeaking, animationFrame |-> animationFrame,
      pendingFrames |-> pendingFrames, loopsCreated |-> loopsCreated,
      expressionCanvas |-> expressionCanvas,
      avatarContainer |-> avatarContainer, avatarLoading |-> avatarLoading,
      attachedCanvases |-> attachedCanvases,
      resizeListeners |-> resizeListeners, analyzingData |-> analyzingData,
      analysisRetryCount |-> analysisRetryCount,
      analysisInFlight |-> analysisInFlight, retryTimers |-> retryTimers,
      analysisSent |-> analysisSent, analysisInterval |-> analysisInterval,
      progress |-> progress, barWidth |-> barWidth,
      interviewHidden |-> interviewHidden, resultsVisible |-> resultsVisible,
      resultsContent |-> resultsContent, downloadingPdf |-> downloadingPdf,
      pdfInFlight |-> pdfInFlight, pdfClicks |-> pdfClicks,
      pdfRequests |-> pdfRequests, pdfDownloads |-> pdfDownloads,
      pdfDownloadStatus |-> pdfDownloadStatus, statusErrors |-> statusErrors,
      uncaughtErrors |-> uncaughtErrors, resultData |-> resultData ]

Apply(s) ==
    /\ gumPending' = s.gumPending
    /\ startReqPending' = s.startReqPending
    /\ stream' = s.stream
    /\ allQuestions' = s.allQuestions
    /\ interviewData' = s.interviewData
    /\ questions' = s.questions
    /\ mimeSupported' = s.mimeSupported
    /\ currentQuestionIndex' = s.currentQuestionIndex
    /\ startBtnDisabled' = s.startBtnDisabled
    /\ nextBtnDisabled' = s.nextBtnDisabled
    /\ stopBtnDisabled' = s.stopBtnDisabled
    /\ settleTimers' = s.settleTimers
    /\ mediaRecorder' = s.mediaRecorder
    /\ orphanRecorders' = s.orphanRecorders
    /\ pendingStops' = s.pendingStops
    /\ recordedChunks' = s.recordedChunks
    /\ recording' = s.recording
    /\ tabFocusInterval' = s.tabFocusInterval
    /\ leakedFocusIntervals' = s.leakedFocusIntervals
    /\ cheatingLogs' = s.cheatingLogs
    /\ uploads' = s.uploads
    /\ speakCalls' = s.speakCalls
    /\ ttsPending' = s.ttsPending
    /\ audio' = s.audio
    /\ audioUtt' = s.audioUtt
    /\ playRejects' = s.playRejects
    /\ isSpeaking' = s.isSpeaking
    /\ animationFrame' = s.animationFrame
    /\ pendingFrames' = s.pendingFrames
    /\ loopsCreated' = s.loopsCreated
    /\ expressionCanvas' = s.expressionCanvas
    /\ avatarContainer' = s.avatarContainer
    /\ avatarLoading' = s.avatarLoading
    /\ attachedCanvases' = s.attachedCanvases
    /\ resizeListeners' = s.resizeListeners
    /\ analyzingData' = s.analyzingData
    /\ analysisRetryCount' = s.analysisRetryCount
    /\ analysisInFlight' = s.analysisInFlight
    /\ retryTimers' = s.retryTimers
    /\ analysisSent' = s.analysisSent
    /\ analysisInterval' = s.analysisInterval
    /\ progress' = s.progress
    /\ barWidth' = s.barWidth
    /\ interviewHidden' = s.interviewHidden
    /\ resultsVisible' = s.resultsVisible
    /\ resultsContent' = s.resultsContent
    /\ downloadingPdf' = s.downloadingPdf
    /\ pdfInFlight' = s.pdfInFlight
    /\ pdfClicks' = s.pdfClicks
    /\ pdfRequests' = s.pdfRequests
    /\ pdfDownloads' = s.pdfDownloads
    /\ pdfDownloadStatus' = s.pdfDownloadStatus
    /\ statusErrors' = s.statusErrors
    /\ uncaughtErrors' = s.uncaughtErrors
    /\ resultData' = s.resultData

(* showMessage(message, "error"): the message stays in #statusMessages.    *)
(* Only the messages that a property observes are recorded.                *)
showError(s, kind) == [s EXCEPT !.statusErrors = @ \cup {kind}]

(* an exception that no try block catches ends the running callback; the   *)
(* page keeps the state reached so far                                     *)
uncaught(s, kind) == [s EXCEPT !.uncaughtErrors = @ \cup {kind}]

(* ======================= avatar animation ======================= *)

(* setupAvatarAnimations(): removes the canvas with id expressionCanvas if  *)
(* there is one, creates a canvas and appends it to #avatarContainer, adds *)
(* a resize listener to window and returns the canvas, which both callers  *)
(* assign to expressionCanvas.  Without #avatarContainer the appendChild   *)
(* call throws a TypeError before the listener is added.                   *)
setupAvatarAnimations(s) ==
    IF ~s.avatarContainer
    THEN uncaught(s, "setupAvatarAnimations")
    ELSE [s EXCEPT !.expressionCanvas = TRUE,
                   !.attachedCanvases = (IF @ > 0 THEN @ - 1 ELSE @) + 1,
                   !.resizeListeners = @ + 1]

(* startSpeaking() ends in the TypeError of setupAvatarAnimations when it  *)
(* has to create the canvas and #avatarContainer is missing                *)
startSpeakingThrows(s) == ~s.expressionCanvas /\ ~s.avatarContainer

(* startSpeaking(): sets the flag, creates the canvas lazily, builds a new *)
(* drawMouth closure and runs it once; that first run draws and requests   *)
(* the next frame, storing the handle in animationFrame.                   *)
(* A draw loop is named by the number of the startSpeaking call that made  *)
(* it; animationFrame = L stands for the handle last requested by loop L.  *)
startSpeaking(s) ==
    LET s1 == [s EXCEPT !.isSpeaking = TRUE]
        s2 == IF ~s1.expressionCanvas THEN setupAvatarAnimations(s1) ELSE s1
        L  == s2.loopsCreated + 1
    IN IF startSpeakingThrows(s)
       THEN s2
       ELSE [s2 EXCEPT !.loopsCreated = L,
                       !.pendingFrames = @ \cup {L},
                       !.animationFrame = L]

(* stopSpeaking(): clears the flag and cancels the handle in animationFrame *)
stopSpeaking(s) ==
    [s EXCEPT !.isSpeaking = FALSE,
              !.pendingFrames = IF s.animationFrame # NoFrame
                                THEN @ \ {s.animationFrame} ELSE @,
              !.animationFrame = NoFrame]

(* a frame callback that does not look at isSpeaking: it draws and         *)
(* requests the next frame every time                                      *)
drawMouthIgnoresFlag(s, L) == [s EXCEPT !.animationFrame = L]

(* drawMouth() run as the animation frame callback of loop L *)
drawMouth(s, L) ==
    IF ~s.isSpeaking
    THEN [s EXCEPT !.pendingFrames = @ \ {L}]
    ELSE [s EXCEPT !.animationFrame = L]

(* ======================= speech ======================= *)

(* speakQuestion(text): starts the animation, then posts /speak_question;  *)
(* an exception of startSpeaking ends it before the request                *)
speakQuestion(s) ==
    LET s1 == startSpeaking(s)
        u  == s1.speakCalls + 1
    IN IF startSpeakingThrows(s)
       THEN s1
       ELSE [s1 EXCEPT !.speakCalls = u, !.ttsPending = @ \cup {u}]

(* success callback of /speak_question for utterance u.  Assigning         *)
(* audioElement.src restarts the element: a play() promise still pending   *)
(* is rejected, and its catch handler (stopSpeaking) runs as a microtask   *)
(* right after this callback.                                              *)
speakSuccess(s, u, hasUrl) ==
    LET s1 == [s EXCEPT !.ttsPending = @ \ {u}]
    IN IF hasUrl
       THEN LET s2 == [s1 EXCEPT !.audio = "loading", !.audioUtt = u]
            IN IF s.audio = "loading" THEN stopSpeaking(s2) ELSE s2
       ELSE stopSpeaking(s1)

(* an error callback of /speak_question that leaves the animation running *)
speakErrorSilent(s, u) == [s EXCEPT !.ttsPending = @ \ {u}]

(* error callback of /speak_question *)
speakError(s, u) == stopSpeaking([s EXCEPT !.ttsPending = @ \ {u}])

(* audioElement.pause(): a pending play() promise is rejected by a task *)
audioPause(s) ==
    IF s.audio = "playing" THEN [s EXCEPT !.audio = "paused"]
    ELSE IF s.audio = "loading"
         THEN [s EXCEPT !.audio = "paused", !.playRejects = @ + 1]
         ELSE s

(* ======================= recording ======================= *)

(* startCheatingDetection(): a new interval timer; the handle of a timer   *)
(* that is still running is overwritten and that timer can no longer be    *)
(* cleared.                                                                *)
startCheatingDetection(s) ==
    [s EXCEPT !.leakedFocusIntervals = IF s.tabFocusInterval THEN @ + 1 ELSE @,
              !.tabFocusInterval = TRUE]

(* stopCheatingDetection(): clears the timer whose handle is stored *)
stopCheatingDetection(s) == [s EXCEPT !.tabFocusInterval = FALSE]

(* a cheating event is posted to url; the log keeps the value the          *)
(* recording flag has when the request is made                             *)
logCheating(s, url) ==
    [s EXCEPT !.cheatingLogs = @ \cup {[url |-> url, recording |-> s.recording]}]

(* the visibilitychange listener; hidden is document.hidden *)
visibilityChange(s, hidden) ==
    IF hidden /\ s.recording THEN logCheating(s, "/log_tab_switch") ELSE s

(* the callback of a focus-poll interval timer; hasFocus is                *)
(* document.hasFocus()                                                     *)
focusPoll(s, hasFocus) ==
    IF ~hasFocus /\ s.recording THEN logCheating(s, "/log_cheating") ELSE s

(* setupRecording(): a new MediaRecorder over the stream replaces the one  *)
(* in mediaRecorder (which keeps recording if it was) and recordedChunks   *)
(* is emptied.  The constructor throws when the mime type is unsupported;  *)
(* the catch leaves everything as it was.                                  *)
setupRecording(s) ==
    IF ~s.stream THEN s
    ELSE IF ~s.mimeSupported THEN s
    ELSE [s EXCEPT !.orphanRecorders =
                       IF s.mediaRecorder.state = "recording" THEN @ + 1 ELSE @,
                   !.mediaRecorder = [state |-> "inactive", q |-> 0],
                   !.recordedChunks = 0]

(* startRecording(): start() throws on a recorder that is not inactive *)
startRecording(s) ==
    IF s.mediaRecorder.state = "none" THEN s
    ELSE LET s1 == [s EXCEPT !.recordedChunks = 0]
         IN IF s1.mediaRecorder.state # "inactive" THEN s1
            ELSE startCheatingDetection(
                   [s1 EXCEPT !.mediaRecorder =
                                  [state |-> "recording",
                                   q |-> s.currentQuestionIndex],
                              !.recording = TRUE])

(* stopRecording(): stop() queues the recorder's dataavailable and stop    *)
(* events; q is the question the recorder was started for and at the       *)
(* value of currentQuestionIndex when stop() was called.                   *)
stopRecording(s) ==
    IF s.mediaRecorder.state = "recording"
    THEN stopCheatingDetection(
           [s EXCEPT !.pendingStops =
                         Append(@, [q |-> s.mediaRecorder.q,
                                    at |-> s.currentQuestionIndex]),
                     !.mediaRecorder = [state |-> "inactive", q |-> 0],
                     !.recording = FALSE])
    ELSE s

(* saveRecording(): packages recordedChunks and posts /upload_recording    *)
(* with the value currentQuestionIndex has now; resets the progress bar.   *)
saveRecording(s, at) ==
    IF s.recordedChunks = 0 THEN s
    ELSE [s EXCEPT !.uploads = @ \cup
                       {[question_index |-> s.currentQuestionIndex, at |-> at]},
                   !.barWidth = 0]

(* the dataavailable event (ondataavailable keeps a chunk of size > 0)     *)
(* followed by the stop event (onstop calls saveRecording) of the          *)
(* recorder stopped first                                                  *)
recorderStopped(s, size) ==
    LET ev == Head(s.pendingStops)
        s1 == [s EXCEPT !.pendingStops = Tail(@),
                        !.recordedChunks =
                            IF size > 0 THEN @ + 1 ELSE @]
    IN saveRecording(s1, ev.at)

(* xhr.upload progress event: percent = round(loaded / total * 100) *)
uploadProgress(s, percent) ==
    [s EXCEPT !.barWidth = percent]

(* success callback of /upload_recording *)
uploadSuccess(s, up) == [s EXCEPT !.uploads = @ \ {up}]

(* error callback of /upload_recording *)
uploadError(s, up) == [s EXCEPT !.uploads = @ \ {up}]

(* ======================= analysis ======================= *)

(* a retry test that lets one more retry through: the bound on the number  *)
(* of requests tells it from the test of the script                        *)
RetryAllowedInclusive(count) == count <= MAX_RETRY_ATTEMPTS

(* the retry test of the error callback *)
RetryAllowed(count) == count < MAX_RETRY_ATTEMPTS

(* analyzeInterviewResponses(): posts /analyze_interview *)
analyzeInterviewResponses(s) ==
    [s EXCEPT !.analysisInFlight = @ + 1, !.analysisSent = @ + 1]

(* the fields of a result payload that displayResults reads *)
ResultFields ==
    {"overall_assessment", "question_assessments", "strengths",
     "areas_for_improvement", "recommended_resources"}

(* displayResults with a validity test that looks at question_assessments *)
(* only                                                                    *)
displayResultsLoose(s, data) ==
    IF "question_assessments" \notin data
    THEN showError(s, "InvalidResult")
    ELSE LET s1 == [s EXCEPT !.interviewHidden = TRUE,
                             !.resultsVisible = TRUE]
         IN IF {"strengths", "areas_for_improvement",
                "recommended_resources"} \subseteq data
            THEN [s1 EXCEPT !.resultsContent = TRUE]
            ELSE uncaught(s1, "displayResults")

(* displayResults(data): data is the set of fields the payload holds.      *)
(* Past the validity test the containers are switched first; building the  *)
(* HTML calls .map on the three list fields and throws on a missing one,   *)
(* before #resultsContent is written.                                      *)
displayResults(s, data) ==
    IF "overall_assessment" \notin data \/ "question_assessments" \notin data
    THEN showError(s, "InvalidResult")
    ELSE LET s1 == [s EXCEPT !.interviewHidden = TRUE,
                             !.resultsVisible = TRUE]
         IN IF {"strengths", "areas_for_improvement",
                "recommended_resources"} \subseteq data
            THEN [s1 EXCEPT !.resultsContent = TRUE]
            ELSE uncaught(s1, "displayResults")

(* a success callback that leaves analyzingData set *)
analyzeSuccessKeepsFlag(s, data) ==
    displayResults(
      [s EXCEPT !.analysisInFlight = @ - 1,
                !.barWidth = ProgressFull], data)

(* success callback of /analyze_interview *)
analyzeSuccess(s, data) ==
    displayResults(
      [s EXCEPT !.analysisInFlight = @ - 1,
                !.analyzingData = FALSE,
                !.barWidth = ProgressFull], data)

(* an error callback that counts every failed attempt twice *)
analyzeErrorCountsTwice(s) ==
    LET s1 == [s EXCEPT !.analysisInFlight = @ - 1]
    IN IF RetryAllowed(s1.analysisRetryCount)
       THEN [s1 EXCEPT !.analysisRetryCount = @ + 2, !.retryTimers = @ + 1]
       ELSE showError([s1 EXCEPT !.analyzingData = FALSE], "AnalysisFailed")

(* error callback of /analyze_interview *)
analyzeError(s) ==
    LET s1 == [s EXCEPT !.analysisInFlight = @ - 1]
    IN IF RetryAllowed(s1.analysisRetryCount)
       THEN [s1 EXCEPT !.analysisRetryCount = @ + 1, !.retryTimers = @ + 1]
       ELSE showError([s1 EXCEPT !.analyzingData = FALSE], "AnalysisFailed")

(* the values progress can take after progress += Math.random() * 3,       *)
(* capped at PROGRESS_CAP                                                  *)
NextProgress(p) ==
    IF p = 0 THEN {0, ProgressMid} ELSE {ProgressMid, PROGRESS_CAP}

(* a tick that does not look at analyzingData *)
analysisTickIgnoresFlag(s, p) ==
    IF s.progress < PROGRESS_CAP
    THEN [s EXCEPT !.progress = p, !.barWidth = p]
    ELSE [s EXCEPT !.analysisInterval = FALSE]

(* one tick of the interval timer stopInterview starts *)
analysisTick(s, p) ==
    IF s.progress < PROGRESS_CAP /\ s.analyzingData
    THEN [s EXCEPT !.progress = p, !.barWidth = p]
    ELSE [s EXCEPT !.analysisInterval = FALSE]

(* ======================= session ======================= *)

(* an end test that is off by one: with it nextQuestion at the last        *)
(* question schedules the settle timer                                     *)
NoMoreQuestionsStrict(index, count) == index > count

(* the end test of nextQuestion and the guard of startInterview *)
NoMoreQuestions(index, count) == index >= count

(* stopInterview() *)
stopInterview(s) ==
    LET s1 == stopRecording(s)
        s2 == [s1 EXCEPT !.startBtnDisabled = TRUE,
                         !.nextBtnDisabled = TRUE,
                         !.stopBtnDisabled = TRUE,
                         !.barWidth = 0]
        s3 == stopSpeaking(audioPause(s2))
        s4 == [s3 EXCEPT !.analyzingData = TRUE,
                         !.analysisRetryCount = 0,
                         !.progress = 0,
                         !.analysisInterval = TRUE]
    IN analyzeInterviewResponses(s4)

(* startInterview() *)
startInterview(s) ==
    IF NoMoreQuestions(s.currentQuestionIndex, Len(s.questions))
    THEN showError(s, "NoMoreQuestions")
    ELSE LET s1 == setupRecording(s)
             s2 == [s1 EXCEPT !.startBtnDisabled = TRUE,
                              !.nextBtnDisabled = FALSE,
                              !.stopBtnDisabled = FALSE]
         IN speakQuestion(startRecording(s2))

(* a nextQuestion that skips a question *)
nextQuestionSkips(s) ==
    LET s1 == stopRecording(s)
        s2 == [s1 EXCEPT !.currentQuestionIndex = @ + 2]
    IN IF NoMoreQuestions(s2.currentQuestionIndex, Len(s2.questions))
       THEN stopInterview(s2)
       ELSE [s2 EXCEPT !.settleTimers = @ + 1]

(* nextQuestion() *)
nextQuestion(s) ==
    LET s1 == stopRecording(s)
        s2 == [s1 EXCEPT !.currentQuestionIndex = @ + 1]
    IN IF NoMoreQuestions(s2.currentQuestionIndex, Len(s2.questions))
       THEN stopInterview(s2)
       ELSE [s2 EXCEPT !.settleTimers = @ + 1]

(* the callback of the 1000 ms timer of nextQuestion.  Reading             *)
(* questions[currentQuestionIndex].question throws when the index is past  *)
(* the end, after setupRecording and startRecording have run.              *)
settleTimer(s) ==
    LET s1 == startRecording(setupRecording([s EXCEPT !.settleTimers = @ - 1]))
    IN IF s1.currentQuestionIndex < Len(s1.questions)
       THEN speakQuestion(s1)
       ELSE uncaught(s1, "settleTimer")

(* ======================= pdf ======================= *)

(* downloadPdf() without its first line, the single-flight guard *)
downloadPdfUnguarded(s) ==
    [s EXCEPT !.downloadingPdf = TRUE,
              !.pdfDownloadStatus = "generating",
              !.pdfInFlight = @ + 1,
              !.pdfRequests = @ + 1]

(* downloadPdf() *)
downloadPdf(s) ==
    IF s.downloadingPdf THEN s
    ELSE [s EXCEPT !.downloadingPdf = TRUE,
                   !.pdfDownloadStatus = "generating",
                   !.pdfInFlight = @ + 1,
                   !.pdfRequests = @ + 1]

(* success callback of /generate_pdf: with a pdf_url a link is created and *)
(* clicked, which starts a browser download                                *)
pdfSuccess(s, hasUrl) ==
    IF hasUrl
    THEN [s EXCEPT !.pdfInFlight = @ - 1,
                   !.pdfDownloads = @ + 1,
                   !.pdfDownloadStatus = "downloaded",
                   !.downloadingPdf = FALSE]
    ELSE [s EXCEPT !.pdfInFlight = @ - 1,
                   !.pdfDownloadStatus = "noUrl",
                   !.downloadingPdf = FALSE]

(* an error callback that leaves downloadingPdf set *)
pdfErrorKeepsFlag(s) ==
    [s EXCEPT !.pdfInFlight = @ - 1, !.pdfDownloadStatus = "error"]

(* error callback of /generate_pdf *)
pdfError(s) ==
    [s EXCEPT !.pdfInFlight = @ - 1,
              !.pdfDownloadStatus = "error",
              !.downloadingPdf = FALSE]

(* ======================= setup ======================= *)

(* A string is a sequence of characters.                                   *)
Digits == {"1", "2"}
Markers == {".", ")", ":"}
Spaces == {" ", "\n"}

(* /^\d+[\.\):]/.test(line) *)
MatchesNumbered(line) ==
    \E k \in 1..(Len(line) - 1) :
        /\ \A i \in 1..k : line[i] \in Digits
        /\ line[k + 1] \in Markers

(* str.trim() *)
Trim(str) ==
    LET keep == {i \in 1..Len(str) : str[i] \notin Spaces}
    IN IF keep = {} THEN << >>
       ELSE SubSeq(str, CHOOSE i \in keep : \A j \in keep : i <= j,
                        CHOOSE i \in keep : \A j \in keep : i >= j)

NonBlank(str) == Trim(str) # << >>

(* the for loop over questionLines and the push after it: cur is           *)
(* currentQuestion, acc the questions pushed so far                        *)
RECURSIVE ParseLines(_, _, _)
ParseLines(lines, cur, acc) ==
    IF lines = << >>
    THEN IF cur # << >> THEN Append(acc, Trim(cur)) ELSE acc
    ELSE LET line == Head(lines)
         IN IF MatchesNumbered(line)
            THEN ParseLines(Tail(lines), line,
                            IF cur # << >> THEN Append(acc, Trim(cur)) ELSE acc)
            ELSE ParseLines(Tail(lines), cur \o << " " >> \o line, acc)

(* questionsText.split('\n\n') on a text given as its lines: an empty line *)
(* ends a paragraph                                                        *)
RECURSIVE SplitParagraphs(_, _, _)
SplitParagraphs(lines, cur, acc) ==
    IF lines = << >> THEN Append(acc, cur)
    ELSE IF Head(lines) = << >> /\ Len(lines) > 1
         THEN SplitParagraphs(Tail(lines), << >>, Append(acc, cur))
         ELSE SplitParagraphs(Tail(lines),
                              IF cur = << >> THEN Head(lines)
                              ELSE cur \o << "\n" >> \o Head(lines), acc)

(* the success callback without the numbered-line pass: the text is split  *)
(* at empty lines only                                                     *)
questionsFromParagraphs(response) ==
    IF Len(response.question_list) # 0 THEN response.question_list
    ELSE SelectSeq(SplitParagraphs(response.questions, << >>, << >>),
                   NonBlank)

(* the value allQuestions gets in the success callback of /start-interview *)
(* response.questions is given as the lines of the text                    *)
questionsFromResponse(response) ==
    IF Len(response.question_list) # 0 THEN response.question_list
    ELSE LET parsed == ParseLines(SelectSeq(response.questions, NonBlank),
                                  << >>, << >>)
         IN IF Len(parsed) # 0 THEN parsed
            ELSE SelectSeq(SplitParagraphs(response.questions, << >>, << >>),
                           NonBlank)

(* the responses of the question service the model draws from *)
SetupResponses ==
    { [question_list |-> << <<"1", ".", "a">>, <<"2", ")", "b">> >>,
       questions |-> << >>],
      [question_list |-> << >>,
       questions |-> << <<"1", ".", "a">>, <<"2", ")", "b", " ">> >>],
      [question_list |-> << >>, questions |-> << <<" ">>, << >> >>] }

(* Responses with an empty question_list and a text of up to MaxLines      *)
(* lines.  The lines: numbered with each of the three markers, with a      *)
(* trailing blank, with a number of two digits, numbered behind a leading  *)
(* blank, not numbered, a blank and an empty line.                         *)
TextLines ==
    { << "1", ".", "a" >>, << "2", ")", "a", " " >>, << "1", "2", ":", "a" >>,
      << " ", "1", ".", "a" >>, << "a" >>, << " " >>, << >> }
TextResponses ==
    {[question_list |-> << >>, questions |-> text] :
        text \in UNION {[1..n -> TextLines] : n \in 1..MaxLines}}

(* startSetup() up to the getUserMedia request *)
startSetup(s, role) ==
    IF role = "" THEN s ELSE [s EXCEPT !.gumPending = @ + 1]

(* getUserMedia resolved: the stream is stored, /start-interview is posted *)
mediaGranted(s) ==
    [s EXCEPT !.gumPending = @ - 1, !.stream = TRUE, !.startReqPending = @ + 1]

(* getUserMedia rejected, but the question request is posted all the same *)
mediaDeniedProceeds(s) ==
    [s EXCEPT !.gumPending = @ - 1, !.startReqPending = @ + 1]

(* getUserMedia rejected *)
mediaDenied(s) == showError([s EXCEPT !.gumPending = @ - 1], "MediaError")

(* success callback of /start-interview *)
setupSuccess(s, response) ==
    [s EXCEPT !.startReqPending = @ - 1,
              !.interviewData = response,
              !.allQuestions = questionsFromResponse(response)]

(* error callback of /start-interview *)
setupError(s) == [s EXCEPT !.startReqPending = @ - 1]

(* ======================= the state machine ======================= *)

Roles == {"", "Backend Engineer"}
UploadPercents == {0, ProgressMid, ProgressFull}

(* The script declares questions = [] and never assigns it; the binding is *)
(* a global of the page, and every function is modelled for any value of   *)
(* it up to MaxQuestions, the empty one included.  The markup is not part  *)
(* of the sources: Start is taken to be enabled and Next and Stop disabled *)
(* when the page loads (startInterview enables them), and the progress     *)
(* container hidden.                                                       *)
Init ==
    /\ gumPending = 0 /\ startReqPending = 0 /\ stream = FALSE
    /\ allQuestions = << >> /\ interviewData = NoResponse
    /\ questions \in {[i \in 1..n |-> i] : n \in 0..MaxQuestions}
    /\ mimeSupported \in BOOLEAN
    /\ currentQuestionIndex = 0
    /\ startBtnDisabled = FALSE /\ nextBtnDisabled = TRUE
    /\ stopBtnDisabled = TRUE /\ settleTimers = 0
    /\ mediaRecorder = NoRecorder /\ orphanRecorders = 0
    /\ pendingStops = << >> /\ recordedChunks = 0 /\ recording = FALSE
    /\ tabFocusInterval = FALSE /\ leakedFocusIntervals = 0 /\ uploads = {}
    /\ cheatingLogs = {}
    /\ speakCalls = 0 /\ ttsPending = {} /\ audio = "idle" /\ audioUtt = 0
    /\ playRejects = 0
    /\ isSpeaking = FALSE /\ animationFrame = NoFrame /\ pendingFrames = {}
    /\ loopsCreated = 0 /\ expressionCanvas = FALSE
    /\ avatarContainer \in BOOLEAN /\ avatarLoading = TRUE
    /\ attachedCanvases = 0 /\ resizeListeners = 0
    /\ analyzingData = FALSE /\ analysisRetryCount = 0
    /\ analysisInFlight = 0 /\ retryTimers = 0 /\ analysisSent = 0
    /\ analysisInterval = FALSE /\ progress = 0 /\ barWidth = 0
    /\ interviewHidden = FALSE /\ resultsVisible = FALSE
    /\ resultsContent = FALSE
    /\ downloadingPdf = FALSE /\ pdfInFlight = 0 /\ pdfClicks = 0
    /\ pdfRequests = 0 /\ pdfDownloads = 0 /\ pdfDownloadStatus = "empty"
    /\ statusErrors = {} /\ uncaughtErrors = {}
    /\ resultData = NoData

(* --- user --- *)
ClickStartSetup ==
    \E role \in Roles :
        /\ role # "" => gumPending + startReqPending < MaxSetupPending
        /\ Apply(startSetup(Cur, role))

ClickStart == ~startBtnDisabled /\ Apply(startInterview(Cur))

ClickNext == ~nextBtnDisabled /\ Apply(nextQuestion(Cur))

ClickStop == ~stopBtnDisabled /\ Apply(stopInterview(Cur))

ClickDownloadPdf ==
    /\ resultsContent
    /\ pdfClicks < MaxPdfClicks
    /\ Apply([downloadPdf(Cur) EXCEPT !.pdfClicks = @ + 1])

(* --- setup callbacks --- *)
MediaGranted == gumPending > 0 /\ Apply(mediaGranted(Cur))

MediaDenied == gumPending > 0 /\ Apply(mediaDenied(Cur))

SetupSuccess ==
    /\ startReqPending > 0
    /\ \E response \in SetupResponses : Apply(setupSuccess(Cur, response))

(* the same callback for the responses that carry a text only *)
SetupSuccessText ==
    /\ startReqPending > 0
    /\ \E response \in TextResponses : Apply(setupSuccess(Cur, response))

SetupError == startReqPending > 0 /\ Apply(setupError(Cur))

(* --- avatar --- *)
(* avatarImage.onload: the image assigned to avatarImage.src has loaded *)
AvatarImageLoad ==
    /\ avatarLoading
    /\ Apply(setupAvatarAnimations([Cur EXCEPT !.avatarLoading = FALSE]))

(* avatarImage.onerror: the image failed; the handler assigns the          *)
(* placeholder to avatarImage.src, which starts another load               *)
AvatarImageError ==
    /\ avatarLoading
    /\ resizeListeners < MaxResizeListeners
    /\ Apply(setupAvatarAnimations(Cur))

AnimationFrame == \E L \in pendingFrames : Apply(drawMouth(Cur, L))

(* --- speech --- *)
SpeakSuccess ==
    \E u \in ttsPending, hasUrl \in BOOLEAN : Apply(speakSuccess(Cur, u, hasUrl))

SpeakError == \E u \in ttsPending : Apply(speakError(Cur, u))

(* the play() promise resolves: playback begins *)
AudioPlayStarted ==
    /\ audio = "loading"
    /\ Apply([Cur EXCEPT !.audio = "playing"])

(* the play() promise rejects: the catch handler calls stopSpeaking *)
AudioPlayRejected ==
    /\ audio = "loading"
    /\ Apply(stopSpeaking([Cur EXCEPT !.audio = "idle"]))

(* the rejection queued by pause(): the catch handler calls stopSpeaking *)
AudioPlayAborted ==
    /\ playRejects > 0
    /\ Apply(stopSpeaking([Cur EXCEPT !.playRejects = @ - 1]))

(* the 'ended' listener *)
AudioEnded ==
    /\ audio = "playing"
    /\ Apply(stopSpeaking([Cur EXCEPT !.audio = "idle"]))

(* --- recording --- *)
SettleTimer == settleTimers > 0 /\ Apply(settleTimer(Cur))

RecorderStopped ==
    /\ pendingStops # << >>
    /\ \E size \in {0, 1} : Apply(recorderStopped(Cur, size))

(* --- cheating detection --- *)
VisibilityChange ==
    \E hidden \in BOOLEAN : Apply(visibilityChange(Cur, hidden))

(* a tick of any focus-poll timer that has not been cleared *)
FocusPollTick ==
    /\ tabFocusInterval \/ leakedFocusIntervals > 0
    /\ \E hasFocus \in BOOLEAN : Apply(focusPoll(Cur, hasFocus))

UploadProgress ==
    /\ uploads # {}
    /\ \E percent \in UploadPercents : Apply(uploadProgress(Cur, percent))

UploadSuccess == \E up \in uploads : Apply(uploadSuccess(Cur, up))

UploadError == \E up \in uploads : Apply(uploadError(Cur, up))

(* --- analysis --- *)
(* resultData keeps the payload of the response for the properties; the    *)
(* script does not store it                                                *)
AnalyzeSuccess ==
    /\ analysisInFlight > 0
    /\ \E data \in SUBSET ResultFields :
          Apply([analyzeSuccess(Cur, data) EXCEPT !.resultData = data])

AnalyzeError == analysisInFlight > 0 /\ Apply(analyzeError(Cur))

RetryTimer ==
    /\ retryTimers > 0
    /\ Apply(analyzeInterviewResponses([Cur EXCEPT !.retryTimers = @ - 1]))

AnalysisTick ==
    /\ analysisInterval
    /\ \E p \in NextProgress(progress) : Apply(analysisTick(Cur, p))

(* --- pdf --- *)
PdfSuccess ==
    /\ pdfInFlight > 0
    /\ \E hasUrl \in BOOLEAN : Apply(pdfSuccess(Cur, hasUrl))

PdfError == pdfInFlight > 0 /\ Apply(pdfError(Cur))

Next ==
    \/ ClickStartSetup \/ ClickStart \/ ClickNext \/ ClickStop
    \/ ClickDownloadPdf
    \/ MediaGranted \/ MediaDenied \/ SetupSuccess \/ SetupSuccessText
    \/ SetupError
    \/ AvatarImageLoad \/ AvatarImageError \/ AnimationFrame
    \/ SpeakSuccess \/ SpeakError
    \/ AudioPlayStarted \/ AudioPlayRejected \/ AudioPlayAborted \/ AudioEnded
    \/ SettleTimer \/ RecorderStopped
    \/ VisibilityChange \/ FocusPollTick
    \/ UploadProgress \/ UploadSuccess \/ UploadError
    \/ AnalyzeSuccess \/ AnalyzeError \/ RetryTimer \/ AnalysisTick
    \/ PdfSuccess \/ PdfError

(* The page as a whole *)
Spec == Init /\ [][Next]_vars

(***************************************************************************)
(* The parts of the page run side by side and their product is too large   *)
(* to enumerate.  Each specification below is the page in an environment   *)
(* that delivers only the events named in its next-state relation: the     *)
(* other requests are still pending and the other timers and callbacks     *)
(* have not fired yet.  The handlers are the same whole handlers, and      *)
(* every behaviour of these specifications is a behaviour of Spec.         *)
(***************************************************************************)

(* setup alone, over the texts the fallback parser is given; questions is  *)
(* what the script declares it to be, the empty list                       *)
InitSetup == Init /\ questions = << >> /\ mimeSupported /\ avatarContainer

NextSetup ==
    \/ ClickStartSetup \/ MediaGranted \/ MediaDenied
    \/ SetupSuccessText \/ SetupError

SpecSetup == InitSetup /\ [][NextSetup]_vars

(* setup, the question loop and the recorder, on a page whose markup holds *)
(* #avatarContainer (the page without it is part of SpecSpeech)            *)
InitSession == Init /\ avatarContainer

NextSession ==
    \/ ClickStartSetup \/ MediaGranted
    \/ SetupSuccess \/ SetupError
    \/ ClickStart \/ ClickNext \/ ClickStop \/ SettleTimer
    \/ RecorderStopped \/ UploadProgress \/ UploadSuccess \/ UploadError

SpecSession == InitSession /\ [][NextSession]_vars

(* the question loop, the recorder and the cheating detection *)
NextCheating ==
    \/ ClickStartSetup \/ MediaGranted
    \/ ClickStart \/ ClickNext \/ ClickStop \/ SettleTimer
    \/ VisibilityChange \/ FocusPollTick

SpecCheating == Init /\ [][NextCheating]_vars

(* the question loop, speech and the avatar animation *)
NextSpeech ==
    \/ ClickStart \/ ClickNext \/ ClickStop \/ SettleTimer
    \/ AvatarImageLoad \/ AvatarImageError \/ AnimationFrame
    \/ SpeakSuccess \/ SpeakError
    \/ AudioPlayStarted \/ AudioPlayRejected \/ AudioPlayAborted \/ AudioEnded

SpecSpeech == Init /\ [][NextSpeech]_vars

(* the end of the interview: the last recording and its upload, the        *)
(* analysis request with its retries, and the progress bar they share      *)
NextAnalysis ==
    \/ ClickStartSetup \/ MediaGranted
    \/ ClickStart \/ ClickStop
    \/ RecorderStopped \/ UploadProgress \/ UploadSuccess \/ UploadError
    \/ AnalyzeSuccess \/ AnalyzeError \/ RetryTimer \/ AnalysisTick

SpecAnalysis == Init /\ [][NextAnalysis]_vars

(* the analysis result and the pdf export *)
NextPdf ==
    \/ ClickStart \/ ClickNext \/ ClickStop
    \/ AnalyzeSuccess \/ AnalyzeError \/ RetryTimer
    \/ ClickDownloadPdf \/ PdfSuccess \/ PdfError

SpecPdf == Init /\ [][NextPdf]_vars

(***************************************************************************)
(*                              Properties                                 *)
(***************************************************************************)

(* stopInterview has run: it is the only caller that posts the first       *)
(* /analyze_interview request                                              *)
StopInterviewHasRun == analysisSent > 0

(* a success callback of /analyze_interview has run: displayResults either *)
(* switched to the results or reported the payload invalid                 *)
AnalysisSucceeded == resultsVisible \/ "InvalidResult" \in statusErrors

(* the number of MediaRecorder objects in state "recording" *)
ActiveRecorders ==
    orphanRecorders + (IF mediaRecorder.state = "recording" THEN 1 ELSE 0)

(* ---- C1 ---- *)

(* C1, as stated: a submission whose requests all fail is failed after the *)
(* 3rd failed request and no 4th request is sent.  analysisRetryCount      *)
(* counts the failures that scheduled a retry.                             *)
C1_FailedAfterThird ==
    /\ analysisSent <= MAX_RETRY_ATTEMPTS
    /\ (analysisRetryCount = MAX_RETRY_ATTEMPTS /\ ~AnalysisSucceeded
           => "AnalysisFailed" \in statusErrors)

(* C1, as the script behaves: the first request is followed by up to       *)
(* MAX_RETRY_ATTEMPTS retries; the terminal failure is reported only after *)
(* the request number MAX_RETRY_ATTEMPTS + 1 has failed, with analyzingData *)
(* false and nothing pending; a submission whose requests have all failed  *)
(* and that has nothing pending is in that terminal state; no more than    *)
(* MAX_RETRY_ATTEMPTS + 1 requests are ever sent.                          *)
C1_FailedAfterRetries ==
    /\ analysisSent <= MAX_RETRY_ATTEMPTS + 1
    /\ ("AnalysisFailed" \in statusErrors
           => /\ analysisSent = MAX_RETRY_ATTEMPTS + 1
              /\ ~analyzingData
              /\ analysisInFlight = 0 /\ retryTimers = 0)
    /\ (StopInterviewHasRun /\ ~AnalysisSucceeded
          /\ analysisInFlight = 0 /\ retryTimers = 0
           => "AnalysisFailed" \in statusErrors)

C1_Witness ==
    /\ "AnalysisFailed" \in statusErrors
    /\ analysisSent = MAX_RETRY_ATTEMPTS + 1
    /\ ~analyzingData

(* ---- C2 ---- *)

(* C2: in every reachable state at most one drawMouth loop has a pending   *)
(* animation frame callback.                                               *)
C2_AtMostOneLoop == Cardinality(pendingFrames) <= 1

(* ---- C3 ---- *)

(* C3: once stopSpeaking has returned, and until startSpeaking is called   *)
(* again, no drawMouth callback is pending.  isSpeaking is false exactly   *)
(* in those states and in the initial one.                                 *)
C3_NoFrameAfterStop == ~isSpeaking => pendingFrames = {}

(* ---- C4 ---- *)

(* C4: a step that calls speakQuestion while the audio of an earlier       *)
(* utterance is playing leaves that audio no longer playing and every      *)
(* draw loop of the earlier utterances without a pending frame.            *)
C4_PreviousStoppedFirst ==
    [][(speakCalls' > speakCalls /\ audio = "playing")
          => /\ audio' # "playing"
             /\ pendingFrames' \subseteq {loopsCreated'}]_vars

(* ---- C5 ---- *)

(* C5: the step of startInterview that reports "No more questions          *)
(* available" is taken only with the cursor at or past the number of       *)
(* questions fetched by startSetup.                                        *)
C5_ErrorOnlyPastFetched ==
    [][("NoMoreQuestions" \in statusErrors' \ statusErrors)
          => currentQuestionIndex >= Len(allQuestions)]_vars

(* ---- C6 ---- *)

(* C6: the step of nextQuestion taken at the last question stops the       *)
(* recorder if it was recording, advances the index, runs stopInterview    *)
(* (buttons disabled, analysis submitted), schedules no settle timer,      *)
(* creates and starts no recorder and speaks no question.                  *)
C6_LastQuestionStops ==
    [][(/\ currentQuestionIndex = Len(questions) - 1
        /\ currentQuestionIndex' = currentQuestionIndex + 1)
          => /\ settleTimers' = settleTimers
             /\ mediaRecorder.state = "recording"
                   => /\ Len(pendingStops') = Len(pendingStops) + 1
                      /\ mediaRecorder'.state = "inactive"
             /\ mediaRecorder.state # "recording"
                   => mediaRecorder' = mediaRecorder
             /\ ~recording'
             /\ orphanRecorders' = orphanRecorders
             /\ speakCalls' = speakCalls
             /\ startBtnDisabled' /\ nextBtnDisabled' /\ stopBtnDisabled'
             /\ analyzingData'
             /\ analysisSent' = analysisSent + 1]_vars

C6_Witness ==
    /\ Len(questions) > 0
    /\ currentQuestionIndex = Len(questions)
    /\ pendingStops # << >>
    /\ StopInterviewHasRun

(* ---- C7 ---- *)

(* C7: once stopInterview has run no recorder is recording and the         *)
(* recording flag is false.                                                *)
C7_NoRecordingAfterStop ==
    StopInterviewHasRun => ~recording /\ ActiveRecorders = 0

(* ---- C8 ---- *)

(* C8: in every reachable state at most one MediaRecorder is recording.    *)
C8_AtMostOneRecorder == ActiveRecorders <= 1

(* ---- C9 ---- *)

(* C9: while the analysis is pending no step lowers the width of           *)
(* #progressBar or sets it to 100%.                                        *)
C9_BarMonotoneBelowFull ==
    [][(analyzingData /\ analyzingData')
          => barWidth' >= barWidth /\ barWidth' < ProgressFull]_vars

(* ---- C10 ---- *)

(* C10: at most one /generate_pdf request is in flight, and a click on the *)
(* download button while downloadingPdf is true sends no request and       *)
(* changes nothing but the count of clicks.                                *)
C10_SingleFlight ==
    /\ [](pdfInFlight <= 1 /\ (downloadingPdf <=> pdfInFlight = 1))
    /\ [][(downloadingPdf /\ pdfClicks' = pdfClicks + 1)
             => [Cur EXCEPT !.pdfClicks = 0]' = [Cur EXCEPT !.pdfClicks = 0]]_vars

C10_Witness ==
    /\ downloadingPdf
    /\ pdfInFlight = 1
    /\ pdfClicks > pdfRequests

(* ---- C11 ---- *)

(* C11: after displayResults was given a payload without                   *)
(* overall_assessment the error message is shown, the interview container  *)
(* is still visible, the results container still hidden, the results       *)
(* content not written, and no exception was raised.                       *)
C11_RefusesWithoutOverall ==
    (resultData # NoData /\ "overall_assessment" \notin resultData)
       => /\ "InvalidResult" \in statusErrors
          /\ ~interviewHidden /\ ~resultsVisible /\ ~resultsContent
          /\ "displayResults" \notin uncaughtErrors

C11_Witness ==
    /\ resultData = ResultFields \ {"overall_assessment"}
    /\ "InvalidResult" \in statusErrors
    /\ ~resultsVisible

(* ---- C12 ---- *)

(* C12: after displayResults was given a payload that lacks one or more of *)
(* the five fields, no exception was raised, the interview container is    *)
(* still visible, the results container still hidden and the results       *)
(* content not written.                                                    *)
C12_RefusesAnyMissingField ==
    (resultData # NoData /\ resultData # ResultFields)
       => /\ "displayResults" \notin uncaughtErrors
          /\ ~interviewHidden /\ ~resultsVisible /\ ~resultsContent

(* ---- C13 ---- *)

(* the non-blank lines of the text of the stored response *)
NonBlankLines == SelectSeq(interviewData.questions, NonBlank)

(* C13: after a response with an empty question_list whose non-blank lines *)
(* all start with a numbered marker, allQuestions holds one question for   *)
(* each of these lines, in their order, each the trimmed line.             *)
C13_OneQuestionPerNumberedLine ==
    (/\ interviewData # NoResponse
     /\ Len(interviewData.question_list) = 0
     /\ \A i \in 1..Len(NonBlankLines) : MatchesNumbered(NonBlankLines[i]))
       => allQuestions =
             [i \in 1..Len(NonBlankLines) |-> Trim(NonBlankLines[i])]

C13_Witness ==
    /\ interviewData =
          [question_list |-> << >>,
           questions |-> << << "1", ".", "a" >>, << "2", ")", "a", " " >> >>]
    /\ allQuestions = << << "1", ".", "a" >>, << "2", ")", "a" >> >>

(* ---- C14 ---- *)

(* C14: startSetup with an empty role makes no request; with a role it     *)
(* makes the media request and not the question request.  The question     *)
(* request is posted only in the step that resolves a media request, which *)
(* stores the stream.  A step that rejects a media request posts nothing   *)
(* and leaves the stream and the questions as they were.                   *)
C14_SetupOrder ==
    /\ [](\A role \in Roles :
            LET after == startSetup(Cur, role)
            IN /\ after.startReqPending = startReqPending
               /\ after.gumPending =
                     IF role = "" THEN gumPending ELSE gumPending + 1)
    /\ [][startReqPending' > startReqPending
             => gumPending' = gumPending - 1 /\ stream']_vars
    /\ [][("MediaError" \in statusErrors' \ statusErrors)
             => /\ gumPending' = gumPending - 1
                /\ UNCHANGED << startReqPending, stream, allQuestions,
                                interviewData, questions,
                                currentQuestionIndex >>]_vars

C14_Witness ==
    /\ "MediaError" \in statusErrors
    /\ gumPending = 0 /\ startReqPending = 0
    /\ ~stream /\ interviewData = NoResponse

(* ---- C15 ---- *)

(* C15: every cheating event was posted with the recording flag true, and  *)
(* while the flag is false (that is, once stopRecording has completed) no  *)
(* focus-poll interval timer is running.                                   *)
C15_DetectionOnlyWhileRecording ==
    /\ \A l \in cheatingLogs : l.recording
    /\ ~recording => (~tabFocusInterval /\ leakedFocusIntervals = 0)

(* ---- C16 ---- *)

(* C16: every /upload_recording request carries as question_index the     *)
(* value currentQuestionIndex had when its recorder was stopped.           *)
C16_UploadCarriesItsQuestion ==
    \A up \in uploads : up.question_index = up.at

(* ---- C17 ---- *)

(* C17: the settle timer callback (setupRecording, startRecording,         *)
(* speakQuestion for the next question) never runs while the stop event of *)
(* a stopped recorder is still to be delivered.                            *)
C17_StopFinishedBeforeNextCycle ==
    [][settleTimers' < settleTimers => pendingStops = << >>]_vars

(* ---- C18 ---- *)

(* C18: a step that calls startSpeaking (a new draw loop is created) is    *)
(* taken with the synthesis request of the newest utterance answered and   *)
(* its audio started, never with that request still pending.               *)
C18_AnimationAfterSynthesis ==
    [][loopsCreated' > loopsCreated
          => /\ speakCalls' \notin ttsPending'
             /\ audioUtt' = speakCalls'
             /\ audio' \in {"loading", "playing"}]_vars

(* ---- C19 ---- *)

(* C19: in every reachable state in which the audio element is playing,   *)
(* isSpeaking is true.                                                     *)
C19_AudioAndAnimationInLockstep == audio = "playing" => isSpeaking

(* ---- C20 ---- *)

(* a step in which an utterance fails: its synthesis request ends with an  *)
(* error or without audio_url (the request leaves ttsPending and the audio *)
(* element is not given its audio), or a play() promise is rejected        *)
SpeechFailureStep ==
    \/ /\ Cardinality(ttsPending') < Cardinality(ttsPending)
       /\ audioUtt' = audioUtt
    \/ audio = "loading" /\ audio' = "idle"
    \/ playRejects' < playRejects

(* C20: every step in which an utterance fails ends with isSpeaking false  *)
(* and the frame handle cleared, and leaves the recorder, the recording    *)
(* flag, the question index and the buttons as they were.                  *)
C20_FailureStopsSpeakingOnly ==
    [][SpeechFailureStep
          => /\ ~isSpeaking' /\ animationFrame' = NoFrame
             /\ UNCHANGED << recording, mediaRecorder, orphanRecorders,
                             pendingStops, recordedChunks,
                             currentQuestionIndex, settleTimers,
                             startBtnDisabled, nextBtnDisabled,
                             stopBtnDisabled, analyzingData >>]_vars

C20_Witness ==
    /\ speakCalls = 1 /\ ttsPending = {} /\ audioUtt = 0
    /\ ~isSpeaking /\ animationFrame = NoFrame
    /\ ~nextBtnDisabled /\ ~analyzingData

(* ---- C21 ---- *)

(* C21: the retry counter is always within 0..MAX_RETRY_ATTEMPTS; the step *)
(* in which stopInterview starts a submission leaves it at 0; while a      *)
(* request is in flight or a retry is pending it is never lowered; and     *)
(* whenever it changes it goes up by one, in the failure of a request that *)
(* schedules a retry.                                                      *)
C21_RetryCounterBounded ==
    /\ [](analysisRetryCount \in 0..MAX_RETRY_ATTEMPTS)
    /\ [][ /\ (~StopInterviewHasRun /\ StopInterviewHasRun')
              => analysisRetryCount' = 0
           /\ (analysisInFlight > 0 \/ retryTimers > 0)
              => analysisRetryCount' >= analysisRetryCount
           /\ analysisRetryCount' # analysisRetryCount
              => /\ analysisRetryCount' = analysisRetryCount + 1
                 /\ analysisInFlight' = analysisInFlight - 1
                 /\ retryTimers' = retryTimers + 1 ]_vars

C21_Witness ==
    /\ analysisRetryCount = MAX_RETRY_ATTEMPTS
    /\ analysisInFlight = 1
    /\ analyzingData

(* ---- the conclusion of the analysis, with every request answered and    *)
(* ---- every timer fired                                                  *)

(* The interview is started, advanced and stopped, and the analysis        *)
(* requests, the retry timer and the progress interval run.                *)
NextConclusion ==
    \/ ClickStart \/ ClickNext \/ ClickStop
    \/ AnalyzeSuccess \/ AnalyzeError \/ RetryTimer \/ AnalysisTick

(* every /analyze_interview request is answered, one way or the other; the *)
(* retry timeout and the interval timer fire                               *)
FairConclusion ==
    /\ WF_vars(AnalyzeSuccess \/ AnalyzeError)
    /\ WF_vars(RetryTimer)
    /\ WF_vars(AnalysisTick)

SpecConclusion == Init /\ [][NextConclusion]_vars /\ FairConclusion

(* ---- C22 ---- *)

(* C22: once stopInterview has run, analyzingData eventually becomes false *)
(* (every request is answered and every timer fires), and from then on it  *)
(* stays false and no further /analyze_interview request is sent.          *)
C22_AnalysisConcludes ==
    /\ StopInterviewHasRun ~> ~analyzingData
    /\ [][(StopInterviewHasRun /\ ~analyzingData)
             => (~analyzingData' /\ analysisSent' = analysisSent)]_vars

C22_Witness ==
    /\ StopInterviewHasRun /\ ~analyzingData
    /\ analysisRetryCount = 2
    /\ resultData # NoData
    /\ analysisInFlight = 0 /\ retryTimers = 0

(* ---- C23 ---- *)

(* C23: the bar's width and text are written together, so barWidth stands  *)
(* for both.  Once the analysis has concluded no step of the interval      *)
(* timer changes the bar or the tick's progress value; a tick writes only  *)
(* while analyzingData is true, and what it writes is its own progress     *)
(* value, never above PROGRESS_CAP; and after the conclusion the interval  *)
(* timer is eventually cleared.                                            *)
C23_TicksEndWithAnalysis ==
    /\ [][(StopInterviewHasRun /\ ~analyzingData)
             => (barWidth' = barWidth /\ progress' = progress)]_vars
    /\ [][progress' # progress
             => /\ analyzingData
                /\ progress' <= PROGRESS_CAP
                /\ barWidth' = progress']_vars
    /\ [](analyzingData => barWidth <= PROGRESS_CAP)
    /\ (StopInterviewHasRun /\ ~analyzingData) ~> ~analysisInterval

C23_Witness ==
    /\ StopInterviewHasRun /\ ~analyzingData
    /\ ~analysisInterval
    /\ progress = ProgressMid
    /\ barWidth = ProgressFull

(* ---- C24 ---- *)

(* C24: while the setup step is shown (no /start-interview request has     *)
(* succeeded yet), a step in which getUserMedia resolves and its stream is *)
(* stored happens only while no stream is stored: the page holds at most   *)
(* one granted stream, and none is overwritten while its tracks are live.  *)
C24_StreamAcquiredOnce ==
    [][(/\ interviewData = NoResponse
        /\ gumPending' < gumPending
        /\ startReqPending' > startReqPending)
          => ~stream]_vars

(* ---- C25 ---- *)

(* C25: once setupAvatarAnimations has returned a canvas, window carries   *)
(* at most one resize listener added by it and exactly one expression      *)
(* canvas is attached.                                                     *)
C25_OneListenerOneCanvas ==
    expressionCanvas => (resizeListeners <= 1 /\ attachedCanvases = 1)

(* ---- C26 ---- *)

(* C26: in drawMouth the drawing, frameCount++ and requestAnimationFrame   *)
(* all lie behind the test of isSpeaking, so the frame request stands for  *)
(* the three.  A frame callback that runs while isSpeaking is false leaves *)
(* the page as it was but for its own handle, which is spent; no step      *)
(* taken while the flag is and stays false requests a frame, stores a      *)
(* handle or creates a loop, and no handle is held while the flag is       *)
(* false.                                                                  *)
C26_IdleFrameOnlyClears ==
    /\ [](~isSpeaking
            => /\ animationFrame = NoFrame
               /\ \A L \in pendingFrames :
                     drawMouth(Cur, L) = [Cur EXCEPT !.pendingFrames = @ \ {L}])
    /\ [][(~isSpeaking /\ ~isSpeaking')
             => /\ pendingFrames' \subseteq pendingFrames
                /\ animationFrame' = animationFrame
                /\ loopsCreated' = loopsCreated]_vars

(* the second utterance is still being synthesised and nothing has been    *)
(* played, so the one stopSpeaking that ran cancelled one of the two loops *)
(* and the other left pendingFrames through a callback that found the flag *)
(* false                                                                   *)
C26_Witness ==
    /\ ~isSpeaking /\ pendingFrames = {}
    /\ loopsCreated = 2 /\ speakCalls = 2 /\ ttsPending = {2}
    /\ audio = "idle" /\ audioUtt = 0 /\ playRejects = 0
    /\ ~StopInterviewHasRun

(* ---- C27 ---- *)

(* C27: on a page that has neither an expression canvas nor                *)
(* #avatarContainer, the step in which startInterview passes its guard     *)
(* (and so calls speakQuestion, which calls startSpeaking) lets no         *)
(* exception reach the event loop and issues the /speak_question request.  *)
C27_SpeaksWithoutContainer ==
    [][(/\ ~avatarContainer /\ ~expressionCanvas
        /\ ~startBtnDisabled /\ startBtnDisabled' /\ ~StopInterviewHasRun')
          => /\ uncaughtErrors' = uncaughtErrors
             /\ speakCalls' = speakCalls + 1
             /\ speakCalls' \in ttsPending']_vars

(* ---- C28 ---- *)

(* the non-blank lines of the stored response that start with a numbered   *)
(* marker                                                                  *)
MarkerLines == SelectSeq(NonBlankLines, MatchesNumbered)

(* C28: after a response with an empty question_list whose text has at     *)
(* least one line starting with a numbered marker, allQuestions holds as   *)
(* many questions as there are such lines and every question starts with a *)
(* numbered marker, whatever precedes the first such line.                 *)
C28_QuestionsStartAtMarkers ==
    (/\ interviewData # NoResponse
     /\ Len(interviewData.question_list) = 0
     /\ Len(MarkerLines) >= 1)
       => /\ Len(allQuestions) = Len(MarkerLines)
          /\ \A i \in 1..Len(allQuestions) : MatchesNumbered(allQuestions[i])

(* ---- C29 ---- *)

(* C29: currentQuestionIndex is always within 0..questions.length; once    *)
(* stopInterview has run Next and Stop are disabled; and the index changes *)
(* only by +1, in a step taken with Next enabled and before stopInterview  *)
(* has run, which either schedules the settle timer or runs stopInterview  *)
(* (a step of nextQuestion).                                               *)
C29_CursorInRange ==
    /\ [](currentQuestionIndex \in 0..Len(questions))
    /\ [](StopInterviewHasRun => (nextBtnDisabled /\ stopBtnDisabled))
    /\ [][currentQuestionIndex' # currentQuestionIndex
             => /\ currentQuestionIndex' = currentQuestionIndex + 1
                /\ ~nextBtnDisabled /\ ~StopInterviewHasRun
                /\ \/ settleTimers' = settleTimers + 1
                   \/ StopInterviewHasRun']_vars

C29_Witness ==
    /\ Len(questions) >= 2
    /\ currentQuestionIndex = Len(questions)
    /\ StopInterviewHasRun /\ nextBtnDisabled
    /\ settleTimers = 0

(* ---- C30 ---- *)

(* C30: every step that completes a /generate_pdf request leaves           *)
(* downloadingPdf false; a click on the download button made while the     *)
(* flag is false sends a new request; and a browser download is started    *)
(* only in the step that completes a request successfully with a pdf_url,  *)
(* one download per such step.                                             *)
C30_GuardReleased ==
    /\ [][pdfInFlight' < pdfInFlight
             => /\ ~downloadingPdf'
                /\ pdfDownloadStatus' \in {"downloaded", "noUrl", "error"}
                /\ pdfDownloads' =
                      pdfDownloads
                        + (IF pdfDownloadStatus' = "downloaded" THEN 1 ELSE 0)
          ]_vars
    /\ [][pdfDownloads' # pdfDownloads => pdfInFlight' < pdfInFlight]_vars
    /\ [][(~downloadingPdf /\ pdfClicks' = pdfClicks + 1)
             => (pdfRequests' = pdfRequests + 1 /\ pdfInFlight' = 1)]_vars
    /\ [](pdfInFlight > 0
            => /\ pdfSuccess(Cur, FALSE).pdfDownloads = pdfDownloads
               /\ pdfError(Cur).pdfDownloads = pdfDownloads
               /\ pdfSuccess(Cur, TRUE).pdfDownloads = pdfDownloads + 1)

(* a second request was sent after a first one had completed, one of the   *)
(* two ended in a download and the last one in an error                    *)
C30_Witness ==
    /\ pdfRequests = 2 /\ pdfDownloads = 1
    /\ pdfDownloadStatus = "error"
    /\ ~downloadingPdf /\ pdfInFlight = 0
====
